---- MODULE Spec2Model ----
(***************************************************************************)
(* Taxonomy and CPT code scraper (scraper.py): the CMS adapter, the NUCC   *)
(* adapter with its fallback chain, the timestamped JSON uploader and the  *)
(* orchestrating main().                                                   *)
(*                                                                         *)
(* Text is a sequence of one-character strings.  None (Python's None) is   *)
(* the one-element sequence <<"None">>, which is no text.  An HTML page is *)
(* its element tree as far as find_all reads it: a table is a sequence of  *)
(* rows, a row a sequence of cells, a cell a record of its own text and    *)
(* the tables nested in it.  A CSV body is the grid csv.reader yields: a   *)
(* header line and the data lines, each a sequence of fields.              *)
(***************************************************************************)
EXTENDS Integers, Sequences, FiniteSets, TLC

VARIABLES pc, response, cms_codes, nucc_codes, all_codes, csv_url, attempts,
          clock, stored, file_urls, storeCalls, result, error

vars == <<pc, response, cms_codes, nucc_codes, all_codes, csv_url, attempts,
          clock, stored, file_urls, storeCalls, result, error>>

-----------------------------------------------------------------------------
(* Bounds of the input space.                                              *)

MaxTables == 2
MaxRows == 2
MaxCells == 2
MaxCsvRows == 2
MaxFields == 4
MaxAnchors == 2
MaxClock == 3
TicksPerSecond == 2

-----------------------------------------------------------------------------
(* Values.                                                                 *)

None == <<"None">>

Texts == {<<" ">>, <<" ", "A", " ">>, <<"B">>}

Fields == {<<>>, <<"A">>}

SeqsUpTo(S, n) == UNION {[1..k -> S] : k \in 0..n}

(* str.strip(), as get_text(strip=True) applies it to every string.        *)
RECURSIVE LStrip(_)
LStrip(s) == IF s # <<>> /\ Head(s) = " " THEN LStrip(Tail(s)) ELSE s

RECURSIVE RStrip(_)
RStrip(s) ==
    IF s # <<>> /\ s[Len(s)] = " " THEN RStrip(SubSeq(s, 1, Len(s) - 1)) ELSE s

Strip(s) == RStrip(LStrip(s))

-----------------------------------------------------------------------------
(* BeautifulSoup searches.  find_all searches every descendant, in         *)
(* document order.                                                         *)

RECURSIVE TablesInTables(_), TablesInRows(_), TablesInCells(_)
TablesInTables(ts) ==
    IF ts = <<>> THEN <<>>
    ELSE <<Head(ts)>> \o TablesInRows(Head(ts)) \o TablesInTables(Tail(ts))
TablesInRows(rows) ==
    IF rows = <<>> THEN <<>>
    ELSE TablesInCells(Head(rows)) \o TablesInRows(Tail(rows))
TablesInCells(cells) ==
    IF cells = <<>> THEN <<>>
    ELSE TablesInTables(Head(cells).tables) \o TablesInCells(Tail(cells))

(* soup.find_all('table')                                                  *)
FindAllTable(page) == TablesInTables(page)

RECURSIVE TrInRows(_), TrInCells(_), TrInTables(_)
TrInRows(rows) ==
    IF rows = <<>> THEN <<>>
    ELSE <<Head(rows)>> \o TrInCells(Head(rows)) \o TrInRows(Tail(rows))
TrInCells(cells) ==
    IF cells = <<>> THEN <<>>
    ELSE TrInTables(Head(cells).tables) \o TrInCells(Tail(cells))
TrInTables(ts) ==
    IF ts = <<>> THEN <<>>
    ELSE TrInRows(Head(ts)) \o TrInTables(Tail(ts))

(* table.find_all('tr')                                                    *)
FindAllTr(table) == TrInRows(table)

RECURSIVE TdInCells(_), TdInTables(_), TdInRows(_)
TdInCells(cells) ==
    IF cells = <<>> THEN <<>>
    ELSE <<Head(cells)>> \o TdInTables(Head(cells).tables) \o TdInCells(Tail(cells))
TdInTables(ts) ==
    IF ts = <<>> THEN <<>>
    ELSE TdInRows(Head(ts)) \o TdInTables(Tail(ts))
TdInRows(rows) ==
    IF rows = <<>> THEN <<>>
    ELSE TdInCells(Head(rows)) \o TdInRows(Tail(rows))

(* row.find_all('td')                                                      *)
FindAllTd(row) == TdInCells(row)

(* cell.get_text(strip=True): every string below the cell, stripped, and   *)
(* joined.                                                                 *)
RECURSIVE GetText(_), TextInTables(_), TextInRows(_), TextInCells(_)
GetText(cell) == Strip(cell.text) \o TextInTables(cell.tables)
TextInTables(ts) ==
    IF ts = <<>> THEN <<>>
    ELSE TextInRows(Head(ts)) \o TextInTables(Tail(ts))
TextInRows(rows) ==
    IF rows = <<>> THEN <<>>
    ELSE TextInCells(Head(rows)) \o TextInRows(Tail(rows))
TextInCells(cells) ==
    IF cells = <<>> THEN <<>>
    ELSE GetText(Head(cells)) \o TextInCells(Tail(cells))

-----------------------------------------------------------------------------
(* CMSScraper.scrape: the parse of the fetched page.                       *)

CMSRecord(cols) ==
    [source |-> "cms",
     code |-> GetText(cols[1]),
     description |-> GetText(cols[2]),
     category |-> <<"CPT/HCPCS">>,
     taxonomy_code |-> None,
     cpt_code |-> GetText(cols[1])]

(* for row in rows[1:]: cols = row.find_all('td'); if len(cols) >= 2: ...  *)
RECURSIVE CMSRowsCodes(_)
CMSRowsCodes(rows) ==
    IF rows = <<>> THEN <<>>
    ELSE LET cols == FindAllTd(Head(rows))
         IN  (IF Len(cols) >= 2 THEN <<CMSRecord(cols)>> ELSE <<>>)
             \o CMSRowsCodes(Tail(rows))

(* for table in tables: rows = table.find_all('tr'); ...                   *)
RECURSIVE CMSTablesCodes(_)
CMSTablesCodes(tables) ==
    IF tables = <<>> THEN <<>>
    ELSE LET rows == FindAllTr(Head(tables))
         IN  (IF rows = <<>> THEN <<>> ELSE CMSRowsCodes(Tail(rows)))
             \o CMSTablesCodes(Tail(tables))

CMSParse(page) == CMSTablesCodes(FindAllTable(page))

-----------------------------------------------------------------------------
(* NUCCScraper: csv.DictReader, the three strategies' parses, the link     *)
(* discovery.                                                              *)

CmsUrl == <<"http", "s://www.cms.gov/medicare/regulations-guidance/physician-self-referral/list-cpt-hcpcs-codes">>

BaseUrl == <<"http", "s://taxonomy.nucc.org/">>

CsvUrl == <<"http", "s://taxonomy.nucc.org/cs/groups/public/documents/datalist/nucc_taxonomy_234", ".csv">>

(* row.get(key) on a csv.DictReader row: the fields are zipped with the    *)
(* header's names (a repeated name keeps its last field), every name past  *)
(* the row's end is then set to None (restval), and a name the header      *)
(* lacks reads None (dict.get).                                            *)
RowGet(header, row, key) ==
    LET at == {i \in 1..Len(header) : header[i] = key /\ i <= Len(row)}
        missing == {i \in 1..Len(header) : header[i] = key /\ i > Len(row)}
    IN  IF at = {} \/ missing # {}
        THEN None
        ELSE row[CHOOSE i \in at : \A j \in at : j <= i]

(* csv.DictReader skips the lines that hold no field at all.               *)
DictRows(rows) == SelectSeq(rows, LAMBDA r : r # <<>>)

DirectRecord(header, row) ==
    [source |-> "nucc",
     code |-> RowGet(header, row, "Code"),
     description |-> RowGet(header, row, "Classification"),
     category |-> RowGet(header, row, "Specialization"),
     taxonomy_code |-> RowGet(header, row, "Code"),
     speciality |-> RowGet(header, row, "Definition"),
     cpt_code |-> None]

RECURSIVE DirectRowsCodes(_, _)
DirectRowsCodes(header, rows) ==
    IF rows = <<>> THEN <<>>
    ELSE <<DirectRecord(header, Head(rows))>> \o DirectRowsCodes(header, Tail(rows))

(* NUCCScraper.scrape, step 1: the parse of the body of csv_url.           *)
DirectCsvCodes(body) == DirectRowsCodes(body.header, DictRows(body.rows))

LinkRecord(header, row) ==
    [source |-> "nucc",
     code |-> RowGet(header, row, "Code"),
     description |-> RowGet(header, row, "Classification"),
     category |-> RowGet(header, row, "Specialization"),
     taxonomy_code |-> RowGet(header, row, "Code"),
     cpt_code |-> None]

RECURSIVE LinkRowsCodes(_, _)
LinkRowsCodes(header, rows) ==
    IF rows = <<>> THEN <<>>
    ELSE <<LinkRecord(header, Head(rows))>> \o LinkRowsCodes(header, Tail(rows))

(* NUCCScraper.scrape_from_csv: the parse of the body of the found link.   *)
ScrapeFromCsvCodes(body) == LinkRowsCodes(body.header, DictRows(body.rows))

NUCCHtmlRecord(cols) ==
    [source |-> "nucc",
     code |-> GetText(cols[1]),
     description |-> GetText(cols[2]),
     category |-> IF Len(cols) > 2 THEN GetText(cols[3]) ELSE <<"General">>,
     taxonomy_code |-> GetText(cols[1]),
     cpt_code |-> None]

RECURSIVE NUCCRowsCodes(_)
NUCCRowsCodes(rows) ==
    IF rows = <<>> THEN <<>>
    ELSE LET cols == FindAllTd(Head(rows))
         IN  (IF Len(cols) >= 2 THEN <<NUCCHtmlRecord(cols)>> ELSE <<>>)
             \o NUCCRowsCodes(Tail(rows))

RECURSIVE NUCCTablesCodes(_)
NUCCTablesCodes(tables) ==
    IF tables = <<>> THEN <<>>
    ELSE LET rows == FindAllTr(Head(tables))
         IN  (IF rows = <<>> THEN <<>> ELSE NUCCRowsCodes(Tail(rows)))
             \o NUCCTablesCodes(Tail(tables))

(* NUCCScraper.scrape, step 3: the tables of the landing page.             *)
NUCCHtmlCodes(page) == NUCCTablesCodes(FindAllTable(page))

(* href and '.csv' in href                                                 *)
IsCsvHref(href) ==
    href # None /\ href # <<>> /\ \E i \in 1..Len(href) : href[i] = ".csv"

(* soup.find('a', href=...): the first anchor whose href passes, or None.  *)
RECURSIVE DownloadLink(_)
DownloadLink(anchors) ==
    IF anchors = <<>> THEN None
    ELSE IF IsCsvHref(Head(anchors)) THEN Head(anchors)
    ELSE DownloadLink(Tail(anchors))

(* if not csv_url.startswith('http'): csv_url = self.base_url + csv_url    *)
ResolveLink(href) == IF Head(href) = "http" THEN href ELSE BaseUrl \o href

-----------------------------------------------------------------------------
(* What the servers may answer.                                            *)

FlatCell(t) == [text |-> t, tables |-> <<>>]

FlatRows(T, nCells) ==
    {[i \in 1..Len(ts) |-> FlatCell(ts[i])] : ts \in SeqsUpTo(T, nCells)}

FlatTables(T, nRows, nCells) == SeqsUpTo(FlatRows(T, nCells), nRows)

FlatPages(T, nTables, nRows, nCells) ==
    SeqsUpTo(FlatTables(T, nRows, nCells), nTables)

(* One table whose last row holds, in its first cell, another table.       *)
NestedPages(T, nRows, nCells) ==
    {<< lead \o <<(<<[text |-> t, tables |-> <<inner>>]>> \o rest)>> >> :
        lead \in SeqsUpTo({<<>>}, 1),
        t \in T,
        inner \in FlatTables(T, nRows, nCells),
        rest \in FlatRows(T, nCells - 1)}

Pages ==
    FlatPages(Texts, MaxTables, MaxRows, MaxCells)
        \cup NestedPages(Texts, MaxRows, MaxCells)

FullHeader == <<"Code", "Classification", "Specialization", "Definition">>

Headers == {FullHeader, <<"Classification", "Code">>, <<"<html>">>}

CsvBodies(nRows, nFields) ==
    {[header |-> h, rows |-> r, malformed |-> FALSE] :
        h \in Headers, r \in SeqsUpTo(SeqsUpTo(Fields, nFields), nRows)}
      \cup {[header |-> <<>>, rows |-> <<>>, malformed |-> TRUE]}

Bodies == CsvBodies(MaxCsvRows, MaxFields)

Hrefs == {None, <<"about.html">>, <<"files/taxonomy", ".csv">>,
          <<"http", "://cdn.nucc.org/taxonomy", ".csv">>}

LandingPages(T, nAnchors, nRows, nCells) ==
    {[anchors |-> a, tables |-> p] :
        a \in SeqsUpTo(Hrefs, nAnchors), p \in FlatPages(T, 1, nRows, nCells)}

Landings == LandingPages({<<" ", "B">>}, MaxAnchors, MaxRows, MaxCells + 1)

NoResponse == [kind |-> "none"]

FetchError(url) == [kind |-> "error", url |-> url]

HtmlResponse(url, anchors, tables) ==
    [kind |-> "html", url |-> url, anchors |-> anchors, tables |-> tables]

CsvResponse(url, body) ==
    [kind |-> "csv", url |-> url, header |-> body.header, rows |-> body.rows,
     malformed |-> body.malformed]

-----------------------------------------------------------------------------
(* The run of main().                                                      *)

Untried == [direct |-> "untried", landing |-> "untried",
            discovered |-> "untried", html |-> "untried"]

Init ==
    /\ pc = "cms"
    /\ response = NoResponse
    /\ cms_codes = <<>>
    /\ nucc_codes = <<>>
    /\ all_codes = <<>>
    /\ csv_url = None
    /\ attempts = Untried
    /\ clock = 0
    /\ stored = <<>>
    /\ file_urls = <<>>
    /\ storeCalls = 0
    /\ result = [returned |-> FALSE]
    /\ error = "none"

(* A main that logs an adapter's exception and goes on to store whatever   *)
(* it holds.                                                               *)
AdapterRaiseSwallowed(e) == pc' = "combine" /\ error' = e

(* An exception leaving an adapter passes main's except clause, which logs *)
(* and re-raises: the run is over.                                         *)
AdapterRaise(e) == pc' = "failed" /\ error' = e

(* CMSScraper.scrape returns.                                              *)
CMSScrapeOk(P) ==
    /\ pc = "cms"
    /\ \E page \in P :
        /\ response' = HtmlResponse(CmsUrl, <<>>, page)
        /\ cms_codes' = CMSParse(page)
    /\ pc' = "nucc_csv"
    /\ UNCHANGED <<nucc_codes, all_codes, csv_url, attempts, clock, stored,
                   file_urls, storeCalls, result, error>>

(* _make_request raises in CMSScraper.scrape.                              *)
CMSScrapeFail ==
    /\ pc = "cms"
    /\ response' = FetchError(CmsUrl)
    /\ AdapterRaise("cms_fetch")
    /\ UNCHANGED <<cms_codes, nucc_codes, all_codes, csv_url, attempts, clock,
                   stored, file_urls, storeCalls, result>>

(* Step 1 succeeds: whatever the body, DictReader reads it.                *)
NUCCDirectOk(B) ==
    /\ pc = "nucc_csv"
    /\ \E body \in B :
        /\ ~body.malformed
        /\ response' = CsvResponse(CsvUrl, body)
        /\ nucc_codes' = DirectCsvCodes(body)
    /\ attempts' = [attempts EXCEPT !.direct = "ok"]
    /\ pc' = "combine"
    /\ UNCHANGED <<cms_codes, all_codes, csv_url, clock, stored, file_urls, storeCalls,
                   result, error>>

(* Step 1 fails (the request raises, or csv.Error while reading): except   *)
(* Exception, a warning, and on to the landing page.                       *)
NUCCDirectFail(B) ==
    /\ pc = "nucc_csv"
    /\ \/ response' = FetchError(CsvUrl)
       \/ \E body \in B : body.malformed /\ response' = CsvResponse(CsvUrl, body)
    /\ attempts' = [attempts EXCEPT !.direct = "failed"]
    /\ pc' = "nucc_landing"
    /\ UNCHANGED <<cms_codes, nucc_codes, all_codes, csv_url, clock, stored,
                   file_urls, storeCalls, result, error>>

(* The landing page request raises inside the except clause.               *)
NUCCLandingFail ==
    /\ pc = "nucc_landing"
    /\ response' = FetchError(BaseUrl)
    /\ attempts' = [attempts EXCEPT !.landing = "failed"]
    /\ AdapterRaise("nucc_landing_fetch")
    /\ UNCHANGED <<cms_codes, nucc_codes, all_codes, csv_url, clock, stored,
                   file_urls, storeCalls, result>>

(* The landing page holds a .csv link: scrape_from_csv is called with it.  *)
NUCCLandingLink(L) ==
    /\ pc = "nucc_landing"
    /\ \E page \in L :
        /\ DownloadLink(page.anchors) # None
        /\ response' = HtmlResponse(BaseUrl, page.anchors, page.tables)
        /\ csv_url' = ResolveLink(DownloadLink(page.anchors))
    /\ attempts' = [attempts EXCEPT !.landing = "ok"]
    /\ pc' = "nucc_link"
    /\ UNCHANGED <<cms_codes, nucc_codes, all_codes, clock, stored, file_urls, storeCalls,
                   result, error>>

(* The landing page holds no .csv link: its tables are parsed.             *)
NUCCLandingTables(L) ==
    /\ pc = "nucc_landing"
    /\ \E page \in L :
        /\ DownloadLink(page.anchors) = None
        /\ response' = HtmlResponse(BaseUrl, page.anchors, page.tables)
        /\ nucc_codes' = NUCCHtmlCodes(page.tables)
    /\ attempts' = [attempts EXCEPT !.landing = "ok", !.html = "ok"]
    /\ pc' = "combine"
    /\ UNCHANGED <<cms_codes, all_codes, csv_url, clock, stored, file_urls, storeCalls,
                   result, error>>

(* scrape_from_csv returns.                                                *)
NUCCDiscoveredOk(B) ==
    /\ pc = "nucc_link"
    /\ \E body \in B :
        /\ ~body.malformed
        /\ response' = CsvResponse(csv_url, body)
        /\ nucc_codes' = ScrapeFromCsvCodes(body)
    /\ attempts' = [attempts EXCEPT !.discovered = "ok"]
    /\ pc' = "combine"
    /\ UNCHANGED <<cms_codes, all_codes, csv_url, clock, stored, file_urls, storeCalls,
                   result, error>>

(* scrape_from_csv raises (the request, or csv.Error): nothing catches it  *)
(* in NUCCScraper.scrape.                                                  *)
NUCCDiscoveredFail(B) ==
    /\ pc = "nucc_link"
    /\ \/ response' = FetchError(csv_url)
       \/ \E body \in B : body.malformed /\ response' = CsvResponse(csv_url, body)
    /\ attempts' = [attempts EXCEPT !.discovered = "failed"]
    /\ AdapterRaise("nucc_discovered")
    /\ UNCHANGED <<cms_codes, nucc_codes, all_codes, csv_url, clock, stored,
                   file_urls, storeCalls, result>>

(* A main that concatenates the two datasets the other way round.         *)
CombineSwapped ==
    /\ pc = "combine"
    /\ all_codes' = nucc_codes \o cms_codes
    /\ pc' = "upload_all"
    /\ UNCHANGED <<response, cms_codes, nucc_codes, csv_url, attempts, clock,
                   stored, file_urls, storeCalls, result, error>>

(* all_codes = cms_codes + nucc_codes; uploader = GCSUploader()            *)
Combine ==
    /\ pc = "combine"
    /\ all_codes' = cms_codes \o nucc_codes
    /\ pc' = "upload_all"
    /\ UNCHANGED <<response, cms_codes, nucc_codes, csv_url, attempts, clock,
                   stored, file_urls, storeCalls, result, error>>

(* GCSUploader() raises (os.makedirs on the output directory): main logs  *)
(* and re-raises before any upload.                                        *)
UploaderInitFail ==
    /\ pc = "combine"
    /\ all_codes' = cms_codes \o nucc_codes
    /\ pc' = "failed"
    /\ error' = "storage_init"
    /\ UNCHANGED <<response, cms_codes, nucc_codes, csv_url, attempts, clock,
                   stored, file_urls, storeCalls, result>>

(* datetime.now().strftime('%Y%m%d_%H%M%S'): the clock cut to the second.  *)
Timestamp(now) == now \div TicksPerSecond

(* filename = f"{prefix}_{timestamp}.json"                                 *)
Filename(prefix, now) == [prefix |-> prefix, timestamp |-> Timestamp(now)]

(* open(local_path, 'w'): a file of that name is replaced.                 *)
WriteFile(files, file) ==
    SelectSeq(files, LAMBDA f : f.name # file.name) \o <<file>>

UploadStages == {"upload_all", "upload_cms", "upload_nucc"}

(* GCSUploader.upload_json returns the file's location.                    *)
UploadJsonOk(stage, data, prefix, next) ==
    /\ pc = stage
    /\ storeCalls' = storeCalls + 1
    /\ stored' = WriteFile(stored, [name |-> Filename(prefix, clock),
                                    data |-> data, complete |-> TRUE])
    /\ file_urls' = Append(file_urls, Filename(prefix, clock))
    /\ pc' = next
    /\ UNCHANGED <<response, cms_codes, nucc_codes, all_codes, csv_url,
                   attempts, clock, result, error>>

UploadCombined == UploadJsonOk("upload_all", all_codes, "all_codes", "upload_cms")

UploadCms == UploadJsonOk("upload_cms", cms_codes, "cms_codes", "upload_nucc")

UploadNucc == UploadJsonOk("upload_nucc", nucc_codes, "nucc_codes", "return")

StagePrefix(stage) ==
    CASE stage = "upload_all" -> "all_codes"
      [] stage = "upload_cms" -> "cms_codes"
      [] stage = "upload_nucc" -> "nucc_codes"

(* GCSUploader.upload_json raises: open() failed and wrote nothing, or     *)
(* json.dump failed and left the file it had opened.  main logs and        *)
(* re-raises; nothing removes what earlier calls wrote.                    *)
UploadJsonFail ==
    /\ pc \in UploadStages
    /\ storeCalls' = storeCalls + 1
    /\ \E opened \in BOOLEAN :
        stored' = IF opened
                  THEN WriteFile(stored, [name |-> Filename(StagePrefix(pc), clock),
                                          data |-> <<>>, complete |-> FALSE])
                  ELSE stored
    /\ pc' = "failed"
    /\ error' = "storage"
    /\ UNCHANGED <<response, cms_codes, nucc_codes, all_codes, csv_url,
                   attempts, clock, file_urls, result>>

(* Wall-clock time passes while the uploads run.                           *)
Tick ==
    /\ pc \in UploadStages
    /\ clock < MaxClock
    /\ clock' = clock + 1
    /\ UNCHANGED <<pc, response, cms_codes, nucc_codes, all_codes, csv_url,
                   attempts, stored, file_urls, storeCalls, result, error>>

(* main returns the counts and the three locations.                        *)
Return ==
    /\ pc = "return"
    /\ result' = [returned |-> TRUE,
                  cms_codes_count |-> Len(cms_codes),
                  nucc_codes_count |-> Len(nucc_codes),
                  total_codes_count |-> Len(all_codes),
                  file_urls |-> [combined |-> file_urls[1],
                                 cms |-> file_urls[2],
                                 nucc |-> file_urls[3]]]
    /\ pc' = "done"
    /\ UNCHANGED <<response, cms_codes, nucc_codes, all_codes, csv_url,
                   attempts, clock, stored, file_urls, storeCalls, error>>

-----------------------------------------------------------------------------
(* The whole run, on small answers.                                        *)

MainPages == FlatPages({<<" ">>, <<"B">>}, 1, MaxRows, MaxCells)

MainBodies == CsvBodies(1, MaxFields)

MainLandings == LandingPages({<<" ", "B">>}, 1, MaxRows, MaxCells + 1)

Next ==
    \/ CMSScrapeOk(MainPages)
    \/ CMSScrapeFail
    \/ NUCCDirectOk(MainBodies)
    \/ NUCCDirectFail(MainBodies)
    \/ NUCCLandingFail
    \/ NUCCLandingLink(MainLandings)
    \/ NUCCLandingTables(MainLandings)
    \/ NUCCDiscoveredOk(MainBodies)
    \/ NUCCDiscoveredFail(MainBodies)
    \/ Combine
    \/ UploaderInitFail
    \/ UploadCombined
    \/ UploadCms
    \/ UploadNucc
    \/ UploadJsonFail
    \/ Tick
    \/ Return

Spec == Init /\ [][Next]_vars

(* CMSScraper.scrape alone, on every page of the bounds.                   *)
NextCMS == CMSScrapeOk(Pages) \/ CMSScrapeFail

SpecCMS == Init /\ [][NextCMS]_vars

(* NUCCScraper.scrape alone (after a CMS page without tables), on every    *)
(* answer of the bounds.                                                   *)
NextNUCC ==
    \/ CMSScrapeOk({<<>>})
    \/ NUCCDirectOk(Bodies)
    \/ NUCCDirectFail(Bodies)
    \/ NUCCLandingFail
    \/ NUCCLandingLink(Landings)
    \/ NUCCLandingTables(Landings)
    \/ NUCCDiscoveredOk(Bodies)
    \/ NUCCDiscoveredFail(Bodies)

SpecNUCC == Init /\ [][NextNUCC]_vars

-----------------------------------------------------------------------------
(* Properties.                                                             *)

AdapterErrors == {"cms_fetch", "nucc_landing_fetch", "nucc_discovered"}

CmsReturned == pc # "cms" /\ error # "cms_fetch"

NuccReturned == "ok" \in {attempts.direct, attempts.discovered, attempts.html}

(* C1: all-or-nothing on adapter failure.  If CMSScraper.scrape or         *)
(* NUCCScraper.scrape raised, the run has failed with that error and no    *)
(* upload_json call was made, and a store call is only ever made after     *)
(* both adapters have returned.                                            *)
C1_AllOrNothing ==
    /\ error \in AdapterErrors =>
          pc = "failed" /\ storeCalls = 0 /\ stored = <<>> /\ ~result.returned
    /\ storeCalls > 0 => CmsReturned /\ NuccReturned

(* A run in which the CMS adapter returned records and the NUCC adapter    *)
(* then raised.                                                            *)
C1_Witness ==
    pc = "failed" /\ error = "nucc_discovered" /\ cms_codes # <<>>

(* C2: the NUCC fallback chain.  The adapter raises only when all three    *)
(* strategies have failed: step 1 failed, and the HTML table parse of the  *)
(* landing page was tried and failed too (or the landing page could not    *)
(* be fetched at all).                                                     *)
C2_RaisesOnlyIfAllFailed ==
    error \in {"nucc_landing_fetch", "nucc_discovered"} =>
        /\ attempts.direct = "failed"
        /\ attempts.landing = "failed" \/ attempts.html = "failed"

Persisted == {stored[i].name.prefix : i \in 1..Len(stored)}

(* C3: no partial output on storage failure.  When the run is over, the    *)
(* artifacts it persisted are all three (combined, cms, nucc) or none.     *)
C3_AllThreeOrNone ==
    pc \in {"done", "failed"} =>
        Persisted \in {{}, {"all_codes", "cms_codes", "nucc_codes"}}

Records(codes) == {codes[i] : i \in 1..Len(codes)}

FieldPresence(r) ==
    /\ r.source = "cms" =>
          r.cpt_code # None /\ r.cpt_code = r.code /\ r.taxonomy_code = None
    /\ r.source = "nucc" =>
          r.taxonomy_code # None /\ r.taxonomy_code = r.code /\ r.cpt_code = None

(* C4: the field-presence invariant.  Every record an adapter returned has *)
(* exactly one of taxonomy_code / cpt_code present, as its source says:    *)
(* cpt_code == code for "cms", taxonomy_code == code for "nucc".           *)
C4_FieldPresence ==
    \A r \in Records(cms_codes) \cup Records(nucc_codes) : FieldPresence(r)

(* C5: no record with an empty code.  No record an adapter returned has an *)
(* empty or missing code.                                                  *)
C5_NoEmptyCode ==
    \A r \in Records(cms_codes) \cup Records(nucc_codes) :
        r.code # None /\ r.code # <<>>

(* The rows of a table element that qualify: not its first row, and at     *)
(* least two cells of their own.                                           *)
Qualifying(table) == {i \in 2..Len(table) : Len(table[i]) >= 2}

RECURSIVE SumQualifying(_)
SumQualifying(tables) ==
    IF tables = <<>> THEN 0
    ELSE Cardinality(Qualifying(Head(tables))) + SumQualifying(Tail(tables))

(* C6: CMS row selection.  When CMSScraper.scrape has returned, it holds   *)
(* exactly one record per qualifying row, over all the tables of the page. *)
C6_OneRecordPerQualifyingRow ==
    (pc = "nucc_csv" /\ response.kind = "html") =>
        Len(cms_codes) = SumQualifying(FindAllTable(response.tables))

(* C7: timestamp consistency.  The three filenames of a finished run carry *)
(* the same timestamp.                                                     *)
C7_SameTimestamp ==
    pc = "done" =>
        /\ result.file_urls.combined.timestamp = result.file_urls.cms.timestamp
        /\ result.file_urls.cms.timestamp = result.file_urls.nucc.timestamp

DataOf(prefix) ==
    LET i == CHOOSE j \in 1..Len(stored) : stored[j].name.prefix = prefix
    IN  stored[i].data

WithSource(codes, source) == SelectSeq(codes, LAMBDA r : r.source = source)

(* C8: the shape of the run result.  After a successful main() the total   *)
(* count is the sum of the two counts, the combined dataset handed to      *)
(* storage is the CMS records followed by the NUCC records, and the two    *)
(* other datasets are its records of source "cms" and of source "nucc".    *)
C8_RunResultShape ==
    pc = "done" =>
        /\ result.total_codes_count
              = result.cms_codes_count + result.nucc_codes_count
        /\ result.cms_codes_count = Len(cms_codes)
        /\ result.nucc_codes_count = Len(nucc_codes)
        /\ DataOf("all_codes") = cms_codes \o nucc_codes
        /\ Len(DataOf("all_codes")) = result.total_codes_count
        /\ DataOf("cms_codes") = WithSource(DataOf("all_codes"), "cms")
        /\ DataOf("nucc_codes") = WithSource(DataOf("all_codes"), "nucc")

(* A finished run in which both adapters returned records.                 *)
C8_Witness ==
    pc = "done" /\ cms_codes # <<>> /\ nucc_codes # <<>>

(* C9: step 2 maps the fields as step 1 does.  The records scrape_from_csv *)
(* returns for a body are those step 1 builds from the same body.          *)
C9_SameMapping ==
    (attempts.discovered = "ok" /\ response.kind = "csv") =>
        nucc_codes = DirectCsvCodes(response)

ExpectedHeader(header) ==
    {"Code", "Classification", "Specialization"}
        \subseteq {header[i] : i \in 1..Len(header)}

(* C10: unparsable step-1 content triggers the fallback.  Once the direct  *)
(* CSV fetch has answered with a body that lacks the expected header, step *)
(* 1 counts as failed and the adapter is on its way to the landing page.   *)
C10_UnparsableFallsBack ==
    (response.kind = "csv" /\ response.url = CsvUrl
        /\ ~ExpectedHeader(response.header)) =>
        attempts.direct = "failed" /\ pc = "nucc_landing"
====
